---- MODULE Spec2Model ----
(***************************************************************************)
(* Model of securechat_server.py (src/server.py): an asyncio websocket     *)
(* relay.  Every connection is served by one handler coroutine; all        *)
(* coroutines run on one event loop, so the code between two suspension    *)
(* points of a coroutine is atomic.  `running` is the event loop's current *)
(* task: a coroutine keeps the loop until it suspends on a transport       *)
(* await (recv / send / close / sleep) or on a lock that is not free.      *)
(***************************************************************************)
EXTENDS Integers, Sequences, FiniteSets, TLC

(***************************************************************************)
(* Input domains and bounds                                                *)
(***************************************************************************)
WsOrder == <<"w1", "w2", "w3">>   \* websocket connections (one handler task each),
WS == {WsOrder[i] : i \in DOMAIN WsOrder}   \* numbered by the arrival of their first frame
NickOrder == <<"a", "b">>         \* nicknames clients may present, named in the
Nicks == {NickOrder[i] : i \in DOMAIN NickOrder}   \* order of their first use
ChatIds == {"r", "rs"}            \* chat ids clients may name
Contents == {"x", "sx"}           \* message contents ("r"+"sx" = "rs"+"x")
Pems == {"PEM1"}                  \* "-----BEGIN PUBLIC KEY-----..." blobs
ChatLists == {<< >>, <<"r">>, <<"r", "rs">>}   \* "chats" lists of a connect frame

None == "None"                    \* Python None / absent mapping
Empty == ""                       \* an empty or missing nickname in the first frame
Anonymous == {WsOrder[Len(WsOrder)]}   \* connections that may present no nickname
AnonymousChatLists == {<<"r">>}   \* "chats" lists of a connect frame without nickname

MESSAGE_CACHE_TIME == 60
MaxEvents == 4                    \* client events (frames sent, transports closed)
MaxTicks == 2                     \* clock advances
TimeStep == (MESSAGE_CACHE_TIME \div 2) + 1

(***************************************************************************)
(* Python dict / set helpers                                               *)
(***************************************************************************)
Get(d, k) == IF k \in DOMAIN d THEN d[k] ELSE None
Put(d, k, v) == [x \in (DOMAIN d) \cup {k} |-> IF x = k THEN v ELSE d[x]]
Pop(d, k) == [x \in (DOMAIN d) \ {k} |-> d[x]]
Inc(d, k) == Put(d, k, IF k \in DOMAIN d THEN d[k] + 1 ELSE 1)
Count(d, k) == IF k \in DOMAIN d THEN d[k] ELSE 0
EmptyDict == [x \in {} |-> None]

(* chat_rooms is an insertion-ordered dict: a sequence of (id, members).   *)
RoomIds(cr) == {cr[i].id : i \in DOMAIN cr}
HasRoom(cr, c) == c \in RoomIds(cr)
RoomIndex(cr, c) == CHOOSE i \in DOMAIN cr : cr[i].id = c
MembersOf(cr, c) == IF HasRoom(cr, c) THEN cr[RoomIndex(cr, c)].members ELSE {}
EnsureRoom(cr, c) == IF HasRoom(cr, c) THEN cr ELSE Append(cr, [id |-> c, members |-> {}])
AddMember(cr, c, n) ==
    LET e == EnsureRoom(cr, c)
    IN  [e EXCEPT ![RoomIndex(e, c)].members = @ \cup {n}]
DiscardNothing(cr, c, n) == cr
DiscardAndReap(cr, c, n) ==
    SelectSeq([i \in DOMAIN cr |->
                  [cr[i] EXCEPT !.members = IF cr[i].id = c THEN @ \ {n} ELSE @]],
              LAMBDA r : r.members # {})
DiscardMember(cr, c, n) ==
    IF HasRoom(cr, c) THEN [cr EXCEPT ![RoomIndex(cr, c)].members = @ \ {n}] ELSE cr
RoomsOf(cr, n) == {c \in RoomIds(cr) : n \in MembersOf(cr, c)}
RoomKeys(cr) == [i \in DOMAIN cr |-> cr[i].id]

RECURSIVE JoinAll(_, _, _)
JoinAll(cr, chats, n) ==
    IF chats = << >> THEN cr
    ELSE JoinAll(AddMember(cr, Head(chats), n), Tail(chats), n)

(***************************************************************************)
(* hash_message: sha256 over the concatenation chat_id + content.  The     *)
(* digest is injective on its input up to collisions, so the fingerprint   *)
(* is modelled by the concatenated string itself.                          *)
(***************************************************************************)
hash_message(chat_id, content) == chat_id \o content

(***************************************************************************)
(* Frames a client may send and envelopes the server sends                 *)
(***************************************************************************)
Frame(type, nickname, chats, chat_id, content, pubkey) ==
    [type |-> type, nickname |-> nickname, chats |-> chats,
     chat_id |-> chat_id, content |-> content, pubkey |-> pubkey]
NoFrame == Frame(None, None, << >>, None, None, None)

(* first frame: JSON {"type":"connect"} or a plain nickname string *)
FirstFrames ==
    {Frame("connect", n, cs, None, None, None) : n \in Nicks, cs \in ChatLists}
    \cup {Frame("nick", n, << >>, None, None, None) : n \in Nicks \cup {Empty}}
    \cup {Frame("connect", Empty, cs, None, None, None) : cs \in AnonymousChatLists}

(* `parsed.get("nickname") or f"user_{int(time.time())}"`, and the same    *)
(* fallback for a blank plain first frame                                  *)
Identity(f, time) == IF f.nickname = Empty THEN "user_" \o ToString(time) ELSE f.nickname

(* later frames: a plain PEM string, an untyped {chat_id, content} envelope *)
(* or a typed JSON command                                                 *)
Frames ==
    {Frame("pem", None, << >>, None, None, k) : k \in Pems}
    \cup {Frame("legacy_message", None, << >>, c, x, None) : c \in ChatIds, x \in Contents}
    \cup {Frame("connect", None, cs, None, None, None) : cs \in ChatLists}
    \cup {Frame(ty, None, << >>, c, None, None) :
              ty \in {"create_chat", "join_chat", "leave_chat"}, c \in ChatIds}
    \cup {Frame("public_key", None, << >>, None, None, k) : k \in Pems}
    \cup {Frame("message", None, << >>, c, x, None) : c \in ChatIds, x \in Contents}

(* frames of no use: text that is neither JSON nor PEM, JSON that is not an *)
(* object, an object of unknown type, a command without its field          *)
MalformedFrames ==
    {Frame(ty, None, << >>, None, None, None) :
         ty \in {"garbage", "not_object", "unknown", "create_chat", "join_chat",
                 "leave_chat", "public_key"}}
    \cup {Frame("message", None, << >>, None, "x", None),
          Frame("message", None, << >>, "r", None, None),
          Frame("legacy_message", None, << >>, None, "x", None)}

Envelope(kind, chat_id, content, nickname, pubkey) ==
    [kind |-> kind, chat_id |-> chat_id, content |-> content,
     nickname |-> nickname, pubkey |-> pubkey]
NoEnvelope == Envelope(None, None, None, None, None)
ForceDisconnect == Envelope("force_disconnect", None, None, None, None)
ErrorNotice == Envelope("error", None, None, None, None)
DisconnectNotice(c, n) == Envelope("sys_disconnected", c, None, n, None)
ConnectNotice(c, n) == Envelope("sys_connected", c, None, n, None)
JoinNotice(c, n) == Envelope("sys_joined", c, None, n, None)
LeaveNotice(c, n) == Envelope("sys_left", c, None, n, None)
KeyEnvelope(n, k) == Envelope("key", None, None, n, k)
Relay(c, x) == Envelope("message", c, x, None, None)
Created(c) == Envelope("created", c, None, None, None)
PubkeyStored == Envelope("pubkey_stored", None, None, None, None)

VARIABLES
    clients,           \* websocket -> nickname
    nickname_to_ws,    \* nickname -> websocket
    client_keys,       \* nickname -> PEM
    chat_rooms,        \* chat_id -> set(nickname), insertion ordered
    recent_messages,   \* set of <<hash, timestamp>>
    lock,              \* asyncio.Lock: the task holding it, or None
    now,               \* time.time()
    closed,            \* websockets whose transport is closed
    pc,                \* per handler task: the suspension / resume point
    loc,               \* per handler task: its local variables
    running,           \* the event loop's current task, None between tasks
    events,            \* client events so far (frames received, transports closed)
    wire,              \* the transport send made by the last step, if any
    relayed,           \* <<hash, timestamp>> -> broadcasts started for that entry
    origin,            \* <<hash, timestamp>> -> the <<chat_id, content>> it was made from
    got                \* <<websocket, hash, timestamp>> -> relays sent to it

vars == <<clients, nickname_to_ws, client_keys, chat_rooms, recent_messages, lock,
          now, closed, pc, loc, running, events, wire, relayed, origin, got>>
shared == <<clients, nickname_to_ws, client_keys, chat_rooms, recent_messages>>

Loc0 ==
    [nickname |-> None,        \* handler: nickname
     old |-> None,             \* handler: old
     phase |-> "first",        \* which recv the frame came from
     obj |-> NoFrame,          \* the frame being handled
     chats |-> << >>,          \* rest of the `for c in chats` loop
     my_chats |-> << >>,       \* rest of the `for c in my_chats` loop (PEM frame)
     my_set |-> {},            \* rest of list(set(my_chats)) (public_key command)
     sent_to |-> {},           \* public_key command: sent_to
     rooms |-> << >>,          \* remove_from_all_chats: rest of the rooms snapshot
     rfac_for |-> None,        \* remove_from_all_chats: caller
     bc_chat |-> None,         \* broadcast_to_chat: chat_id
     bc_payload |-> NoEnvelope,\* broadcast_to_chat: payload
     bc_exclude |-> None,      \* broadcast_to_chat: exclude_nick
     bc_ret |-> None,          \* broadcast_to_chat: where the caller resumes
     members |-> {},           \* rest of the `for ... in members` loop
     stamp |-> -1,             \* timestamp of the dedup entry this relay inserted
     cnt |-> EmptyDict,        \* nickname -> key envelopes this command sent for/to it
     peers |-> {},             \* nicknames the command's key envelopes are owed for/to
     left |-> {},              \* remove_from_all_chats: rooms the nickname was removed from
     prev_key |-> None,        \* client_keys.get(nickname) before a key store or the teardown
     snapshot |-> {},          \* broadcast_to_chat: members as snapshotted under the lock
     fails |-> EmptyDict]      \* websocket -> sends of this command to it that failed

NoWire == [from |-> None, to |-> None, env |-> NoEnvelope, ok |-> FALSE]
Wire(t, w, e) == [from |-> t, to |-> w, env |-> e, ok |-> w \notin closed]

Init ==
    /\ clients = EmptyDict
    /\ nickname_to_ws = EmptyDict
    /\ client_keys = EmptyDict
    /\ chat_rooms = << >>
    /\ recent_messages = {}
    /\ lock = None
    /\ now = 0
    /\ closed = {}
    /\ pc = [t \in WS |-> "recv_first"]
    /\ loc = [t \in WS |-> Loc0]
    /\ running = None
    /\ events = 0
    /\ wire = NoWire
    /\ relayed = EmptyDict
    /\ origin = EmptyDict
    /\ got = EmptyDict

(***************************************************************************)
(* Event loop scheduling                                                   *)
(***************************************************************************)
(* points where a coroutine waits for its own transport, or has ended *)
RecvPcs == {"recv_first", "recv_second", "recv", "closed"}
(* points at `async with lock` *)
LockPcs == {"reg_lock", "rfac_lock", "bc_lock", "cn_join_lock", "keys_lock", "cr_lock",
            "jn_lock", "lv_lock", "pk_lock", "pk_chat_lock", "pem_lock", "lm_lock",
            "dc_lock"}

At(t, p) == pc[t] = p /\ running \in {None, t}

(* Control moves to p without a transport await: the task keeps the loop   *)
(* unless p waits for a frame or for a lock that is held.                  *)
Goto(t, p) ==
    /\ pc' = [pc EXCEPT ![t] = p]
    /\ running' = IF p \in RecvPcs \/ (p \in LockPcs /\ lock' # None) THEN None ELSE t

(* Control moves to p across a transport await (send, close, sleep). *)
Yield(t, p) ==
    /\ pc' = [pc EXCEPT ![t] = p]
    /\ running' = None

Set(t, r) == loc' = [loc EXCEPT ![t] = r]

(***************************************************************************)
(* Environment: clients, clock                                             *)
(***************************************************************************)
(* a client (or the network) closes the transport of w *)
ClientClose(w) ==
    /\ running = None
    /\ w \notin closed
    /\ pc[w] # "closed"
    /\ events < MaxEvents
    /\ events' = events + 1
    /\ closed' = closed \cup {w}
    /\ wire' = NoWire
    /\ UNCHANGED <<shared, lock, now, pc, loc, running, relayed, origin, got>>

Tick ==
    /\ running = None
    /\ now < MaxTicks * TimeStep
    /\ recent_messages # {}       \* the clock is read only against cached timestamps
    /\ now' = now + TimeStep
    /\ wire' = NoWire
    /\ UNCHANGED <<shared, lock, closed, pc, loc, running, events, relayed, origin, got>>

(* one pass of the `while True` loop of cleanup_message_cache *)
Expired(m) == now - m[2] > MESSAGE_CACHE_TIME
cleanup_message_cache ==
    /\ running = None
    /\ recent_messages' = {m \in recent_messages : ~Expired(m)}
    /\ wire' = NoWire
    /\ UNCHANGED <<clients, nickname_to_ws, client_keys, chat_rooms, lock, now, closed,
                   pc, loc, running, events, relayed, origin, got>>

(***************************************************************************)
(* handler: identification (lines 245-284)                                 *)
(***************************************************************************)
RecvFirst(t) ==
    /\ At(t, "recv_first")
    /\ \A i, j \in DOMAIN WsOrder : (i < j /\ WsOrder[j] = t) => pc[WsOrder[i]] # "recv_first"
    /\ events < MaxEvents
    /\ events' = events + 1
    /\ \E f \in FirstFrames :
          /\ t = WsOrder[1] => f.nickname = NickOrder[1]
          /\ f.nickname = Empty => t \in Anonymous
          /\ Set(t, [loc[t] EXCEPT !.nickname = Identity(f, now), !.obj = f,
                                    !.phase = "first"])
    /\ UNCHANGED lock
    /\ Goto(t, "reg_lock")
    /\ wire' = NoWire
    /\ UNCHANGED <<shared, now, closed, relayed, origin, got>>

TakesOverNever(old, websocket) == FALSE

(* `if old and old != websocket` *)
TakesOver(old, websocket) == old # None /\ old # websocket

(* `async with lock:` of the identification, up to the takeover's first    *)
(* await; resumed after `await old.close()` for the two registry writes.   *)
Register(t) ==
    /\ pc[t] \in {"reg_lock", "tk_close"}
    /\ running \in {None, t}
    /\ pc[t] = "reg_lock" => lock = None
    /\ LET nickname == loc[t].nickname
           old == IF pc[t] = "reg_lock" THEN Get(nickname_to_ws, nickname) ELSE loc[t].old
       IN  IF pc[t] = "reg_lock" /\ TakesOver(old, t)
           THEN /\ lock' = t
                /\ Set(t, [loc[t] EXCEPT !.old = old])
                /\ Goto(t, "tk_send")
                /\ UNCHANGED <<clients, nickname_to_ws, closed>>
           ELSE /\ clients' = Put(clients, t, nickname)
                /\ nickname_to_ws' = Put(nickname_to_ws, nickname, t)
                /\ lock' = None
                /\ closed' = IF pc[t] = "tk_close" THEN closed \cup {loc[t].old} ELSE closed
                /\ UNCHANGED loc
                /\ Goto(t, IF loc[t].obj.type = "connect" THEN "cn_join_lock"
                                                          ELSE "recv_second")
    /\ wire' = NoWire
    /\ UNCHANGED <<client_keys, chat_rooms, recent_messages, now, events, relayed, origin, got>>

(* `await safe_send(old, force_disconnect)` inside the lock, then the call *)
(* of remove_from_all_chats(nickname, notify=True)                         *)
TakeoverSend(t) ==
    /\ At(t, "tk_send")
    /\ wire' = Wire(t, loc[t].old, ForceDisconnect)
    /\ Set(t, [loc[t] EXCEPT !.rfac_for = "takeover"])
    /\ Yield(t, "rfac_lock")
    /\ UNCHANGED <<shared, lock, now, closed, events, relayed, origin, got>>

(***************************************************************************)
(* broadcast_to_chat (lines 42-53)                                         *)
(***************************************************************************)
Broadcast(r, chat_id, payload, exclude_nick, ret) ==
    [r EXCEPT !.bc_chat = chat_id, !.bc_payload = payload,
              !.bc_exclude = exclude_nick, !.bc_ret = ret]

(* safe_send: True if the payload was sent; a closed transport raises      *)
(* ConnectionClosed on each of the 3 attempts and safe_send returns False  *)
safe_send(ws) == ws \notin closed

AbortOnFailure(members, nick, sent) == IF sent THEN members \ {nick} ELSE {}

(* what is left of `for nick in members` after the iteration of nick; the  *)
(* value returned by safe_send is discarded                                *)
Remaining(members, nick, sent) == members \ {nick}

ExcludesNobody(nick, exclude_nick) == FALSE

(* `if nick == exclude_nick: continue` *)
Excluded(nick, exclude_nick) == nick = exclude_nick

BroadcastSnapshot(t) ==
    /\ At(t, "bc_lock")
    /\ lock = None
    /\ Set(t, [loc[t] EXCEPT !.members = MembersOf(chat_rooms, loc[t].bc_chat),
                              !.snapshot = MembersOf(chat_rooms, loc[t].bc_chat)])
    /\ UNCHANGED lock
    /\ Goto(t, "bc_loop")
    /\ wire' = NoWire
    /\ UNCHANGED <<shared, now, closed, events, relayed, origin, got>>

(* one iteration of `for nick in members`, or the return to the caller *)
BroadcastLoop(t) ==
    /\ At(t, "bc_loop")
    /\ UNCHANGED lock
    /\ IF loc[t].members = {}
       THEN /\ Set(t, Broadcast([loc[t] EXCEPT !.snapshot = {}], None, NoEnvelope, None, None))
            /\ Goto(t, loc[t].bc_ret)
            /\ wire' = NoWire
            /\ UNCHANGED got
       ELSE \E nick \in loc[t].members :
              LET ws == Get(nickname_to_ws, nick)
                  payload == loc[t].bc_payload
                  sent == safe_send(ws)
                  rest == [loc[t] EXCEPT !.members = Remaining(@, nick, sent),
                                         !.fails = IF sent THEN @ ELSE Inc(@, ws)]
              IN  IF Excluded(nick, loc[t].bc_exclude) \/ ws = None
                  THEN /\ Set(t, [loc[t] EXCEPT !.members = @ \ {nick}])
                       /\ Goto(t, "bc_loop")
                       /\ wire' = NoWire
                       /\ UNCHANGED got
                  ELSE /\ wire' = Wire(t, ws, payload)
                       /\ Set(t, IF payload.kind = "key"
                                 THEN [rest EXCEPT !.cnt = Inc(@, nick)] ELSE rest)
                       /\ got' = IF payload.kind = "message"
                                 THEN Inc(got, <<ws, hash_message(payload.chat_id,
                                                    payload.content), loc[t].stamp>>)
                                 ELSE got
                       /\ Yield(t, "bc_loop")
    /\ UNCHANGED <<shared, now, closed, events, relayed, origin>>

(***************************************************************************)
(* disconnect_client and remove_from_all_chats (lines 67-94)               *)
(***************************************************************************)
(* recv raises ConnectionClosed (or `async for` ends): the finally clause *)
RecvClosed(t) ==
    /\ pc[t] \in {"recv_first", "recv_second", "recv"}
    /\ running \in {None, t}
    /\ t \in closed
    /\ UNCHANGED <<lock, loc>>
    /\ Goto(t, "dc_lock")
    /\ wire' = NoWire
    /\ UNCHANGED <<shared, now, closed, events, relayed, origin, got>>

KeepKey(keys, nickname) == keys

(* `client_keys.pop(nickname, None)` *)
PopKey(keys, nickname) == Pop(keys, nickname)

disconnect_client(t) ==
    /\ At(t, "dc_lock")
    /\ lock = None
    /\ UNCHANGED lock
    /\ LET nickname == Get(clients, t)
       IN  IF nickname # None
           THEN /\ clients' = Pop(clients, t)
                /\ nickname_to_ws' = Pop(nickname_to_ws, nickname)
                /\ client_keys' = PopKey(client_keys, nickname)
                /\ Set(t, [Loc0 EXCEPT !.nickname = nickname, !.rfac_for = "disconnect",
                                        !.prev_key = Get(client_keys, nickname)])
                /\ Goto(t, "rfac_lock")
           ELSE /\ UNCHANGED <<clients, nickname_to_ws, client_keys>>
                /\ Set(t, Loc0)
                /\ Goto(t, "closed")
    /\ wire' = NoWire
    /\ UNCHANGED <<chat_rooms, recent_messages, now, closed, events, relayed, origin, got>>

(* `async with lock: rooms = list(chat_rooms.items())`; the member sets in *)
(* the snapshot are the live sets, so only the keys are copied             *)
RemoveSnapshot(t) ==
    /\ At(t, "rfac_lock")
    /\ lock = None
    /\ Set(t, [loc[t] EXCEPT !.rooms = RoomKeys(chat_rooms)])
    /\ UNCHANGED lock
    /\ Goto(t, "rfac_loop")
    /\ wire' = NoWire
    /\ UNCHANGED <<shared, now, closed, events, relayed, origin, got>>

(* one iteration of `for chat_id, members in rooms`, or the return *)
remove_from_all_chats(t) ==
    /\ At(t, "rfac_loop")
    /\ UNCHANGED lock
    /\ IF loc[t].rooms = << >>
       THEN /\ UNCHANGED <<chat_rooms, loc>>
            /\ Goto(t, IF loc[t].rfac_for = "takeover" THEN "tk_close" ELSE "dc_done")
       ELSE LET chat_id == Head(loc[t].rooms)
                nickname == loc[t].nickname
                members == MembersOf(chat_rooms, chat_id)
                rest == [loc[t] EXCEPT !.rooms = Tail(@)]
            IN  IF nickname \in members
                THEN /\ chat_rooms' = DiscardMember(chat_rooms, chat_id, nickname)
                     /\ IF members \ {nickname} # {}
                        THEN /\ Set(t, Broadcast([rest EXCEPT !.left = @ \cup {chat_id}],
                                        chat_id,
                                        DisconnectNotice(chat_id, nickname),
                                        nickname, "rfac_loop"))
                             /\ Goto(t, "bc_lock")
                        ELSE /\ Set(t, [rest EXCEPT !.left = @ \cup {chat_id}])
                             /\ Goto(t, "rfac_loop")
                ELSE /\ UNCHANGED chat_rooms
                     /\ Set(t, rest)
                     /\ Goto(t, "rfac_loop")
    /\ wire' = NoWire
    /\ UNCHANGED <<clients, nickname_to_ws, client_keys, recent_messages, now, closed,
                   events, relayed, origin, got>>

(* disconnect_client has returned: the handler coroutine ends *)
HandlerEnd(t) ==
    /\ At(t, "dc_done")
    /\ Set(t, Loc0)
    /\ UNCHANGED lock
    /\ Goto(t, "closed")
    /\ wire' = NoWire
    /\ UNCHANGED <<shared, now, closed, events, relayed, origin, got>>

(***************************************************************************)
(* handler: receiving frames (lines 287-310, 319-368)                      *)
(***************************************************************************)
(* where a received frame is handled: the PEM test, the untyped envelope   *)
(* test (main loop only) and the dispatch on obj["type"]                   *)
MissingFieldNever(f) == FALSE

(* `if not chat_id`, `if not pem`, `if not chat_id or content is None` *)
MissingField(f) ==
    \/ f.type \in {"create_chat", "join_chat", "leave_chat"} /\ f.chat_id = None
    \/ f.type = "public_key" /\ f.pubkey = None
    \/ f.type \in {"message", "legacy_message"} /\ (f.chat_id = None \/ f.content = None)

Dispatch(f, at) ==
    CASE MissingField(f) ->
             IF f.type \in {"create_chat", "join_chat"} THEN "err_reply" ELSE "op_done"
      [] f.type = "pem" -> "pem_lock"
      [] f.type = "legacy_message" -> IF at = "recv" THEN "lm_check" ELSE "op_done"
      [] f.type = "connect" -> "cn_join_lock"
      [] f.type = "create_chat" -> "cr_lock"
      [] f.type = "join_chat" -> "jn_lock"
      [] f.type = "leave_chat" -> "lv_lock"
      [] f.type = "public_key" -> "pk_lock"
      [] f.type = "message" -> "msg_check"
      [] OTHER -> "op_done"

Recv(t) ==
    /\ pc[t] \in {"recv_second", "recv"}
    /\ running \in {None, t}
    /\ events < MaxEvents
    /\ events' = events + 1
    /\ UNCHANGED lock
    /\ \E f \in Frames \cup MalformedFrames :
          /\ Set(t, [loc[t] EXCEPT !.obj = f,
                        !.phase = IF pc[t] = "recv" THEN "main" ELSE "second"])
          /\ Goto(t, Dispatch(f, pc[t]))
    /\ wire' = NoWire
    /\ UNCHANGED <<shared, now, closed, relayed, origin, got>>

(* asyncio.wait_for(websocket.recv(), timeout=1.5) times out: second = None *)
SecondTimeout(t) ==
    /\ At(t, "recv_second")
    /\ UNCHANGED <<lock, loc>>
    /\ Goto(t, "recv")
    /\ wire' = NoWire
    /\ UNCHANGED <<shared, now, closed, events, relayed, origin, got>>

(* the command returned: back to `async for message in websocket` *)
OpDone(t) ==
    /\ At(t, "op_done")
    /\ Set(t, [Loc0 EXCEPT !.nickname = loc[t].nickname])
    /\ UNCHANGED lock
    /\ Goto(t, "recv")
    /\ wire' = NoWire
    /\ UNCHANGED <<shared, now, closed, events, relayed, origin, got>>

(***************************************************************************)
(* handle_json_command: connect (lines 108-133)                            *)
(***************************************************************************)
(* nicknames other than n that are in one of the chats and have a key *)
KeyedPeers(cr, keys, chats, n) ==
    {m \in DOMAIN keys : m # n /\ \E i \in DOMAIN chats : m \in MembersOf(cr, chats[i])}

ConnectJoin(t) ==
    /\ At(t, "cn_join_lock")
    /\ lock = None
    /\ UNCHANGED lock
    /\ LET chats == loc[t].obj.chats
           nickname == loc[t].nickname
       IN  /\ chat_rooms' = JoinAll(chat_rooms, chats, nickname)
           /\ Set(t, [loc[t] EXCEPT !.chats = chats,
                         !.peers = KeyedPeers(chat_rooms', client_keys, chats, nickname)])
           /\ Goto(t, IF chats = << >> THEN "op_done" ELSE "keys_lock")
    /\ wire' = NoWire
    /\ UNCHANGED <<clients, nickname_to_ws, client_keys, recent_messages, now, closed,
                   events, relayed, origin, got>>

(* `async with lock: members = list(chat_rooms...)` of the key replay of   *)
(* connect (per chat) and of join_chat                                     *)
KeysSnapshot(t) ==
    /\ At(t, "keys_lock")
    /\ lock = None
    /\ Set(t, [loc[t] EXCEPT !.members = MembersOf(chat_rooms, Head(loc[t].chats))])
    /\ UNCHANGED lock
    /\ Goto(t, "keys_loop")
    /\ wire' = NoWire
    /\ UNCHANGED <<shared, now, closed, events, relayed, origin, got>>

(* one iteration of `for m in members` of the key replay, or its end *)
KeysLoop(t) ==
    /\ At(t, "keys_loop")
    /\ UNCHANGED lock
    /\ IF loc[t].members = {}
       THEN /\ wire' = NoWire
            /\ IF Tail(loc[t].chats) # << >>
               THEN /\ Set(t, [loc[t] EXCEPT !.chats = Tail(@)])
                    /\ Goto(t, "keys_lock")
               ELSE IF loc[t].obj.type = "connect"
                    THEN /\ Set(t, [loc[t] EXCEPT !.chats = loc[t].obj.chats])
                         /\ Goto(t, "cn_notice")
                    ELSE /\ Set(t, [loc[t] EXCEPT !.chats = << >>])
                         /\ Goto(t, "op_done")
       ELSE \E m \in loc[t].members :
              LET key == Get(client_keys, m)
                  rest == [loc[t] EXCEPT !.members = @ \ {m}]
              IN  IF m = loc[t].nickname \/ key = None
                  THEN /\ Set(t, rest)
                       /\ Goto(t, "keys_loop")
                       /\ wire' = NoWire
                  ELSE /\ wire' = Wire(t, t, KeyEnvelope(m, key))
                       /\ Set(t, [rest EXCEPT !.cnt = Inc(@, m)])
                       /\ Yield(t, "keys_loop")
    /\ UNCHANGED <<shared, now, closed, events, relayed, origin, got>>

(* one iteration of the join notices `for c in chats`, or the return *)
ConnectNotify(t) ==
    /\ At(t, "cn_notice")
    /\ UNCHANGED lock
    /\ IF loc[t].chats = << >>
       THEN /\ UNCHANGED loc
            /\ Goto(t, "op_done")
       ELSE LET c == Head(loc[t].chats)
            IN  /\ Set(t, Broadcast([loc[t] EXCEPT !.chats = Tail(@)], c,
                              ConnectNotice(c, loc[t].nickname), loc[t].nickname,
                              "cn_notice"))
                /\ Goto(t, "bc_lock")
    /\ wire' = NoWire
    /\ UNCHANGED <<shared, now, closed, events, relayed, origin, got>>

(***************************************************************************)
(* handle_json_command: create_chat, join_chat, leave_chat (lines 135-180) *)
(***************************************************************************)
CreateChat(t) ==
    /\ At(t, "cr_lock")
    /\ lock = None
    /\ UNCHANGED lock
    /\ LET chat_id == loc[t].obj.chat_id
           nickname == loc[t].nickname
       IN  /\ chat_rooms' = AddMember(chat_rooms, chat_id, nickname)
           /\ Set(t, [loc[t] EXCEPT
                         !.peers = KeyedPeers(chat_rooms', client_keys, <<chat_id>>, nickname)])
    /\ Goto(t, "cr_reply")
    /\ wire' = NoWire
    /\ UNCHANGED <<clients, nickname_to_ws, client_keys, recent_messages, now, closed,
                   events, relayed, origin, got>>

(* the reply to the sender that ends create_chat and public_key, or the   *)
(* error reply of create_chat and join_chat                               *)
Reply(t) ==
    /\ pc[t] \in {"cr_reply", "pk_reply", "err_reply"}
    /\ running \in {None, t}
    /\ wire' = Wire(t, t, CASE pc[t] = "cr_reply" -> Created(loc[t].obj.chat_id)
                             [] pc[t] = "pk_reply" -> PubkeyStored
                             [] OTHER -> ErrorNotice)
    /\ UNCHANGED <<lock, loc>>
    /\ Yield(t, "op_done")
    /\ UNCHANGED <<shared, now, closed, events, relayed, origin, got>>

JoinChat(t) ==
    /\ At(t, "jn_lock")
    /\ lock = None
    /\ UNCHANGED lock
    /\ LET chat_id == loc[t].obj.chat_id
           nickname == loc[t].nickname
       IN  /\ chat_rooms' = AddMember(chat_rooms, chat_id, nickname)
           /\ Set(t, Broadcast([loc[t] EXCEPT !.chats = <<chat_id>>,
                         !.peers = KeyedPeers(chat_rooms', client_keys, <<chat_id>>, nickname)],
                         chat_id, JoinNotice(chat_id, nickname), nickname, "keys_lock"))
    /\ Goto(t, "bc_lock")
    /\ wire' = NoWire
    /\ UNCHANGED <<clients, nickname_to_ws, client_keys, recent_messages, now, closed,
                   events, relayed, origin, got>>

LeaveChat(t) ==
    /\ At(t, "lv_lock")
    /\ lock = None
    /\ UNCHANGED lock
    /\ LET chat_id == loc[t].obj.chat_id
           nickname == loc[t].nickname
       IN  /\ chat_rooms' = DiscardMember(chat_rooms, chat_id, nickname)
           /\ Set(t, Broadcast(loc[t], chat_id, LeaveNotice(chat_id, nickname),
                               nickname, "op_done"))
    /\ Goto(t, "bc_lock")
    /\ wire' = NoWire
    /\ UNCHANGED <<clients, nickname_to_ws, client_keys, recent_messages, now, closed,
                   events, relayed, origin, got>>

(***************************************************************************)
(* publishing a key: the public_key command (lines 182-208) and a plain    *)
(* PEM frame (lines 292-300, 321-330)                                      *)
(***************************************************************************)
(* connected nicknames other than n that share a room with n *)
RoomPeers(cr, reg, n) ==
    {m \in DOMAIN reg : m # n /\ \E c \in RoomsOf(cr, n) : m \in MembersOf(cr, c)}

PublicKey(t) ==
    /\ At(t, "pk_lock")
    /\ lock = None
    /\ UNCHANGED lock
    /\ LET nickname == loc[t].nickname
           my_chats == RoomsOf(chat_rooms, nickname)
       IN  /\ client_keys' = Put(client_keys, nickname, loc[t].obj.pubkey)
           /\ Set(t, [loc[t] EXCEPT !.my_set = my_chats, !.sent_to = {},
                         !.prev_key = Get(client_keys, nickname),
                         !.peers = RoomPeers(chat_rooms, nickname_to_ws, nickname)])
           /\ Goto(t, IF my_chats = {} THEN "pk_reply" ELSE "pk_chat_lock")
    /\ wire' = NoWire
    /\ UNCHANGED <<clients, nickname_to_ws, chat_rooms, recent_messages, now, closed,
                   events, relayed, origin, got>>

(* `for c in my_chats: async with lock: members = set(...)` *)
PublicKeySnapshot(t) ==
    /\ At(t, "pk_chat_lock")
    /\ lock = None
    /\ UNCHANGED lock
    /\ \E c \in loc[t].my_set :
          Set(t, [loc[t] EXCEPT !.my_set = @ \ {c}, !.members = MembersOf(chat_rooms, c)])
    /\ Goto(t, "pk_loop")
    /\ wire' = NoWire
    /\ UNCHANGED <<shared, now, closed, events, relayed, origin, got>>

(* one iteration of `for m in members` of the public_key command *)
PublicKeyLoop(t) ==
    /\ At(t, "pk_loop")
    /\ UNCHANGED lock
    /\ IF loc[t].members = {}
       THEN /\ UNCHANGED loc
            /\ Goto(t, IF loc[t].my_set = {} THEN "pk_reply" ELSE "pk_chat_lock")
            /\ wire' = NoWire
       ELSE \E m \in loc[t].members :
              LET ws_target == Get(nickname_to_ws, m)
                  rest == [loc[t] EXCEPT !.members = @ \ {m}]
              IN  IF m = loc[t].nickname \/ m \in loc[t].sent_to \/ ws_target = None
                  THEN /\ Set(t, rest)
                       /\ Goto(t, "pk_loop")
                       /\ wire' = NoWire
                  ELSE /\ wire' = Wire(t, ws_target,
                                       KeyEnvelope(loc[t].nickname, loc[t].obj.pubkey))
                       /\ Set(t, [rest EXCEPT !.sent_to = @ \cup {m}, !.cnt = Inc(@, m)])
                       /\ Yield(t, "pk_loop")
    /\ UNCHANGED <<shared, now, closed, events, relayed, origin, got>>

PemStore(t) ==
    /\ At(t, "pem_lock")
    /\ lock = None
    /\ UNCHANGED lock
    /\ LET nickname == loc[t].nickname
           my_chats == SelectSeq(RoomKeys(chat_rooms),
                                 LAMBDA c : nickname \in MembersOf(chat_rooms, c))
       IN  /\ client_keys' = Put(client_keys, nickname, loc[t].obj.pubkey)
           /\ Set(t, [loc[t] EXCEPT !.my_chats = my_chats,
                         !.prev_key = Get(client_keys, nickname),
                         !.peers = RoomPeers(chat_rooms, nickname_to_ws, nickname)])
    /\ Goto(t, "pem_next")
    /\ wire' = NoWire
    /\ UNCHANGED <<clients, nickname_to_ws, chat_rooms, recent_messages, now, closed,
                   events, relayed, origin, got>>

(* one iteration of `for c in my_chats: await broadcast_to_chat(c, key)` *)
PemFanout(t) ==
    /\ At(t, "pem_next")
    /\ UNCHANGED lock
    /\ IF loc[t].my_chats = << >>
       THEN /\ UNCHANGED loc
            /\ Goto(t, "op_done")
       ELSE /\ Set(t, Broadcast([loc[t] EXCEPT !.my_chats = Tail(@)], Head(loc[t].my_chats),
                          KeyEnvelope(loc[t].nickname, loc[t].obj.pubkey),
                          loc[t].nickname, "pem_next"))
            /\ Goto(t, "bc_lock")
    /\ wire' = NoWire
    /\ UNCHANGED <<shared, now, closed, events, relayed, origin, got>>

(***************************************************************************)
(* sending a message: the message command (lines 210-223) and the untyped  *)
(* {chat_id, content} envelope of the main loop (lines 336-355)            *)
(***************************************************************************)
NeverDuplicate(h) == FALSE

(* `h in {m[0] for m in recent_messages}` *)
IsDuplicate(h) == h \in {m[1] : m \in recent_messages}

(* the dedup test and insertion; no await separates them *)
MessageCheck(t) ==
    /\ pc[t] \in {"msg_check", "lm_check"}
    /\ running \in {None, t}
    /\ UNCHANGED lock
    /\ LET chat_id == loc[t].obj.chat_id
           content == loc[t].obj.content
           h == hash_message(chat_id, content)
       IN  IF IsDuplicate(h)
           THEN /\ UNCHANGED <<recent_messages, relayed, origin, loc>>
                /\ Goto(t, "op_done")
           ELSE /\ recent_messages' = recent_messages \cup {<<h, now>>}
                /\ relayed' = Inc(relayed, <<h, now>>)
                /\ origin' = Put(origin, <<h, now>>, <<chat_id, content>>)
                /\ IF pc[t] = "msg_check"
                   THEN /\ Set(t, Broadcast([loc[t] EXCEPT !.stamp = now], chat_id,
                                      Relay(chat_id, content), loc[t].nickname, "op_done"))
                        /\ Goto(t, "bc_lock")
                   ELSE /\ Set(t, [loc[t] EXCEPT !.stamp = now])
                        /\ Goto(t, "lm_lock")
    /\ wire' = NoWire
    /\ UNCHANGED <<clients, nickname_to_ws, client_keys, chat_rooms, now, closed, events, got>>

(* untyped envelope: the sender is added to the room, then the relay *)
LegacyJoin(t) ==
    /\ At(t, "lm_lock")
    /\ lock = None
    /\ UNCHANGED lock
    /\ LET chat_id == loc[t].obj.chat_id
       IN  /\ chat_rooms' = AddMember(chat_rooms, chat_id, loc[t].nickname)
           /\ Set(t, Broadcast(loc[t], chat_id, Relay(chat_id, loc[t].obj.content),
                               loc[t].nickname, "op_done"))
    /\ Goto(t, "bc_lock")
    /\ wire' = NoWire
    /\ UNCHANGED <<clients, nickname_to_ws, client_keys, recent_messages, now, closed,
                   events, relayed, origin, got>>

(***************************************************************************)
(* Specification                                                           *)
(***************************************************************************)
TaskStep(t) ==
    \/ Register(t) \/ TakeoverSend(t)
    \/ BroadcastSnapshot(t) \/ BroadcastLoop(t)
    \/ RecvClosed(t) \/ disconnect_client(t) \/ RemoveSnapshot(t)
    \/ remove_from_all_chats(t) \/ HandlerEnd(t)
    \/ SecondTimeout(t) \/ OpDone(t)
    \/ ConnectJoin(t) \/ KeysSnapshot(t) \/ KeysLoop(t) \/ ConnectNotify(t)
    \/ CreateChat(t) \/ Reply(t) \/ JoinChat(t) \/ LeaveChat(t)
    \/ PublicKey(t) \/ PublicKeySnapshot(t) \/ PublicKeyLoop(t)
    \/ PemStore(t) \/ PemFanout(t)
    \/ MessageCheck(t) \/ LegacyJoin(t)

Next ==
    \/ \E t \in WS : RecvFirst(t) \/ Recv(t) \/ TaskStep(t)
    \/ \E w \in WS : ClientClose(w)
    \/ Tick
    \/ cleanup_message_cache

Spec == Init /\ [][Next]_vars

(* the event loop runs every task that is ready *)
FairSpec == Spec /\ \A t \in WS : WF_vars(TaskStep(t))

(***************************************************************************)
(* Properties                                                              *)
(***************************************************************************)
InAnyRoom(n) == RoomsOf(chat_rooms, n) # {}
TornDown(w, n) ==
    /\ w \notin DOMAIN clients
    /\ ~InAnyRoom(n)
    /\ n \notin DOMAIN client_keys
Takeover(t) == pc[t] \in {"tk_send", "rfac_lock", "rfac_loop"} /\ loc[t].old # None

(* C1: every nickname is owned by at most one websocket, and nickname_to_ws *)
(* is the inverse of clients, in every reachable state - also after an      *)
(* identification that names a nickname registered to another websocket.    *)
C1_OneSessionPerNickname ==
    /\ \A w1, w2 \in DOMAIN clients : clients[w1] = clients[w2] => w1 = w2
    /\ \A n \in DOMAIN nickname_to_ws : Get(clients, nickname_to_ws[n]) = n
    /\ \A w \in DOMAIN clients : Get(nickname_to_ws, clients[w]) = w

(* C1 witness: a websocket has identified with a nickname registered to     *)
(* another websocket, and exactly one websocket is registered for it.       *)
C1_Witness ==
    \E t \in WS :
        /\ Takeover(t)
        /\ wire.env = ForceDisconnect
        /\ Cardinality({w \in DOMAIN clients : clients[w] = loc[t].nickname}) = 1

(* C2: a takeover comes to the point where nickname_to_ws[nickname] is set  *)
(* to the new websocket, and at that point the old websocket has been sent  *)
(* force_disconnect and is fully torn down (not in clients, nickname in no  *)
(* room, no key record).                                                    *)
C2_TakeoverOrdering ==
    /\ [][\A t \in WS :
            (loc[t].old # None /\ Get(nickname_to_ws, loc[t].nickname) # t
                /\ Get(nickname_to_ws', loc[t].nickname) = t)
            => TornDown(loc[t].old, loc[t].nickname)]_vars
    /\ \A t \in WS :
          Takeover(t) ~> (Get(nickname_to_ws, loc[t].nickname) = t
                            /\ TornDown(loc[t].old, loc[t].nickname))

(* C3: no task that holds the lock waits for that same lock. *)
C3_NoSelfDeadlock == \A t \in WS : ~(lock = t /\ pc[t] \in LockPcs)

(* no handler other than t is identified with nickname n *)
OnlyHolder(t, n) == \A u \in WS \ {t} : loc[u].nickname # n

(* C4 as claimed: when disconnect_client has completed for a registered     *)
(* websocket, its nickname is in no room, has no key record and no entry in *)
(* nickname_to_ws or clients, whatever other handlers ran concurrently.     *)
C4_TeardownTotalAlways ==
    \A t \in WS :
        pc[t] = "dc_done" =>
            /\ TornDown(t, loc[t].nickname)
            /\ loc[t].nickname \notin DOMAIN nickname_to_ws

(* C4 amended: when disconnect_client has completed for a registered        *)
(* websocket, the websocket has no entry in clients and, unless another     *)
(* connection is identified with the same nickname by then, the nickname is *)
(* in no room and has no key record and no entry in nickname_to_ws.         *)
C4_TeardownTotal ==
    \A t \in WS :
        pc[t] = "dc_done" =>
            /\ t \notin DOMAIN clients
            /\ OnlyHolder(t, loc[t].nickname) =>
                  /\ TornDown(t, loc[t].nickname)
                  /\ loc[t].nickname \notin DOMAIN nickname_to_ws

(* C4 witness: a teardown that removed the nickname from two rooms has      *)
(* completed while another session is live.                                 *)
C4_Witness ==
    \E t \in WS :
        /\ pc[t] = "dc_done"
        /\ Cardinality(loc[t].left) = 2
        /\ OnlyHolder(t, loc[t].nickname)
        /\ DOMAIN clients # {}

MessageSubmitted(t) ==
    /\ pc[t] = "op_done"
    /\ loc[t].obj \in Frames
    /\ \/ loc[t].obj.type = "message"
       \/ loc[t].obj.type = "legacy_message" /\ loc[t].phase = "main"
Suppressed(t) == MessageSubmitted(t) /\ loc[t].stamp = -1
HashOf(t) == hash_message(loc[t].obj.chat_id, loc[t].obj.content)

C6_ExpiredEntryIsAbsent ==
    \A t \in WS :
        (Suppressed(t) /\ running = t) =>
            \E m \in recent_messages : m[1] = HashOf(t) /\ ~Expired(m)

OpChats(t) ==
    IF loc[t].obj.type = "connect" THEN loc[t].obj.chats ELSE <<loc[t].obj.chat_id>>

(* C7: a command that makes the nickname a member of rooms (connect,        *)
(* join_chat, create_chat) sends it exactly one key envelope for every      *)
(* other member of those rooms that has a stored key.                       *)
C7_KeyReplayExactlyOnce ==
    \A t \in WS :
        (pc[t] = "op_done" /\ loc[t].obj.type \in {"connect", "join_chat", "create_chat"}) =>
            \A m \in loc[t].peers \cap
                     KeyedPeers(chat_rooms, client_keys, OpChats(t), loc[t].nickname) :
                Count(loc[t].cnt, m) = 1

(* C8: when a disconnect notice for nickname n is sent, n has been removed  *)
(* from the registry, from every room and from the key store.               *)
C8_NoticeAfterRemoval ==
    (wire.env.kind = "sys_disconnected" /\ OnlyHolder(wire.from, wire.env.nickname)) =>
        /\ ~InAnyRoom(wire.env.nickname)
        /\ wire.env.nickname \notin DOMAIN nickname_to_ws
        /\ wire.env.nickname \notin DOMAIN client_keys

(* C9: no transport send is made by a task that holds the lock. *)
C9_NoSendUnderLock == wire.to # None => lock = None

(* C10: a key publication (public_key command or plain PEM frame) is sent   *)
(* exactly once to every connected peer sharing a room with the publisher,  *)
(* however many rooms they share, and not to the publisher.                 *)
C10_FanoutOncePerPeer ==
    \A t \in WS :
        (pc[t] = "op_done" /\ loc[t].obj.type \in {"pem", "public_key"}) =>
            /\ Count(loc[t].cnt, loc[t].nickname) = 0
            /\ \A m \in loc[t].peers \cap
                        RoomPeers(chat_rooms, nickname_to_ws, loc[t].nickname) :
                  Count(loc[t].cnt, m) = 1

KeyPublished(t) ==
    pc[t] = "op_done" /\ loc[t].obj \in Frames /\ loc[t].obj.type \in {"pem", "public_key"}

(* C11: publishing a key equal to the one already stored for the nickname   *)
(* leaves client_keys unchanged and sends no key envelope to any peer.      *)
C11_UnchangedKeyNoFanout ==
    \A t \in WS :
        (KeyPublished(t) /\ loc[t].prev_key = loc[t].obj.pubkey) =>
            /\ Get(client_keys, loc[t].nickname) = loc[t].prev_key
            /\ \A m \in Nicks : Count(loc[t].cnt, m) = 0

(* C12: a websocket to which a send failed is torn down, so no later        *)
(* broadcast of the same command resolves it as a recipient again.          *)
C12_UnreachablePruned ==
    \A t \in WS : \A w \in DOMAIN loc[t].fails : loc[t].fails[w] <= 1

(* C15: a connection whose first frame carries an empty or missing nickname *)
(* never gets an entry in clients or nickname_to_ws.                        *)
C15_NoSessionWithoutIdentity ==
    \A t \in WS :
        (loc[t].phase = "first" /\ loc[t].obj.nickname = Empty) =>
            /\ t \notin DOMAIN clients
            /\ \A n \in DOMAIN nickname_to_ws : nickname_to_ws[n] # t

Moved(t) == pc'[t] # pc[t] \/ loc'[t] # loc[t]
Unusable(r) == r.obj \in MalformedFrames /\ r.phase = "main"

(* C16: a malformed or unrecognized frame received in the main loop leaves  *)
(* clients, nickname_to_ws, client_keys, chat_rooms and recent_messages     *)
(* unchanged, and the handler goes back to receiving.                       *)
C16_MalformedFrameIgnored ==
    [][\A t \in WS :
          (Moved(t) /\ (Unusable(loc[t]) \/ Unusable(loc'[t]))) =>
              /\ shared' = shared
              /\ closed' = closed
              /\ pc'[t] \in {"err_reply", "op_done", "recv"}]_vars

(* C16 witness: a create_chat without chat_id received in the main loop has *)
(* been answered with an error while rooms and a key exist.                 *)
C16_Witness ==
    \E t \in WS :
        /\ Unusable(loc[t])
        /\ pc[t] = "op_done"
        /\ wire = Wire(t, t, ErrorNotice)
        /\ chat_rooms # << >>
        /\ DOMAIN clients # {t}

InBroadcast(t) == pc[t] = "bc_loop" /\ loc[t].members # {}

(* C13: within one broadcast_to_chat call a failed send never aborts the    *)
(* loop: every iteration takes exactly one nickname off the snapshot, a     *)
(* nickname other than the excluded one that resolves to a websocket gets a *)
(* send attempt, and the loop is left only when the snapshot is exhausted.  *)
C13_FailureIsolation ==
    [][\A t \in WS :
          /\ (InBroadcast(t) /\ Moved(t)) =>
                 /\ pc'[t] = "bc_loop"
                 /\ \E nick \in loc[t].members :
                       /\ loc'[t].members = loc[t].members \ {nick}
                       /\ (nick # loc[t].bc_exclude /\ Get(nickname_to_ws, nick) # None) =>
                              wire' = Wire(t, Get(nickname_to_ws, nick), loc[t].bc_payload)
          /\ (pc[t] = "bc_loop" /\ pc'[t] # "bc_loop") => loc[t].members = {}]_vars

(* C13 witness: in one broadcast a send to a closed websocket has failed    *)
(* and a later iteration has sent the payload to another member.            *)
C13_Witness ==
    \E t \in WS :
        /\ pc[t] = "bc_loop"
        /\ \E w \in DOMAIN loc[t].fails :
              /\ Get(clients, w) \in loc[t].snapshot
              /\ wire.from = t /\ wire.ok /\ wire.to \notin {None, w, t}
              /\ Get(clients, wire.to) \in loc[t].snapshot

RelaySent == wire.env.kind = "message" /\ wire.to # None

(* C14: a relayed message is sent only to websockets of nicknames that were *)
(* members of the room when broadcast_to_chat took its snapshot, and never  *)
(* to the sending nickname.                                                 *)
C14_RecipientsFromSnapshot ==
    RelaySent =>
        /\ Get(clients, wire.to) \in loc[wire.from].snapshot
        /\ Get(clients, wire.to) # loc[wire.from].nickname
        /\ wire.to # wire.from

(* C14 witness: in a room of three, both peers of the sender have been sent *)
(* the relay.                                                               *)
C14_Witness ==
    /\ RelaySent
    /\ Cardinality(loc[wire.from].snapshot) = 3
    /\ loc[wire.from].nickname \in loc[wire.from].snapshot
    /\ Cardinality({k \in DOMAIN got :
                       k[2] = hash_message(wire.env.chat_id, wire.env.content)}) = 2

(* C17: a chat_id that is a key of chat_rooms stays a key in every later    *)
(* state; leave_chat takes only the leaving nickname out of the one room it *)
(* names and changes no membership when the nickname is not a member or the *)
(* room does not exist.                                                     *)
C17_RoomsPersist ==
    [][/\ RoomIds(chat_rooms) \subseteq RoomIds(chat_rooms')
       /\ \A t \in WS :
             (pc[t] = "lv_lock" /\ Moved(t)) =>
                 /\ RoomIds(chat_rooms') = RoomIds(chat_rooms)
                 /\ \A c \in RoomIds(chat_rooms) :
                       MembersOf(chat_rooms', c) =
                           IF c = loc[t].obj.chat_id
                           THEN MembersOf(chat_rooms, c) \ {loc[t].nickname}
                           ELSE MembersOf(chat_rooms, c)]_vars

(* C17 witness: the last member of a room has left it by leave_chat and the *)
(* room is still a key of chat_rooms, with no members.                      *)
C17_Witness ==
    \E t \in WS :
        /\ pc[t] = "bc_lock"
        /\ loc[t].obj.type = "leave_chat"
        /\ HasRoom(chat_rooms, loc[t].obj.chat_id)
        /\ MembersOf(chat_rooms, loc[t].obj.chat_id) = {}
        /\ Len(chat_rooms) = 2

(* C18: every nickname with an entry in client_keys has an entry in         *)
(* nickname_to_ws: the key record goes with the registry mapping when the   *)
(* session ends and no operation in flight stores one afterwards.           *)
C18_KeysOnlyForLiveSessions == DOMAIN client_keys \subseteq DOMAIN nickname_to_ws

(* C18 witness: a session that had published a key has been removed from   *)
(* the registry and the key store while another session is live.           *)
C18_Witness ==
    \E t \in WS :
        /\ pc[t] \in {"rfac_lock", "rfac_loop", "bc_lock", "bc_loop", "dc_done"}
        /\ loc[t].rfac_for = "disconnect"
        /\ loc[t].prev_key # None
        /\ loc[t].nickname \notin DOMAIN client_keys
        /\ loc[t].nickname \notin DOMAIN nickname_to_ws
        /\ DOMAIN clients # {}

(* nicknames registered to a websocket other than t *)
OthersNicknames(t) == {n \in DOMAIN nickname_to_ws : nickname_to_ws[n] # t}

(* C19: the teardown of websocket t (disconnect_client and the              *)
(* remove_from_all_chats it calls) removes no registry mapping, key record  *)
(* or room membership of a nickname registered to another websocket.        *)
C19_TeardownOwnSessionOnly ==
    [][\A t \in WS :
          (Moved(t) /\ (pc[t] = "dc_lock"
                          \/ (pc[t] = "rfac_loop" /\ loc[t].rfac_for = "disconnect"))) =>
              \A n \in OthersNicknames(t) :
                  /\ Get(nickname_to_ws', n) = nickname_to_ws[n]
                  /\ Get(client_keys', n) = Get(client_keys, n)
                  /\ RoomsOf(chat_rooms, n) \subseteq RoomsOf(chat_rooms', n)]_vars

(* C20: a submission is suppressed only by a cached entry made from the     *)
(* same (chat_id, content) pair: different pairs never suppress one         *)
(* another, also when their concatenations chat_id + content coincide.      *)
C20_ScopesNotConflated ==
    \A t \in WS :
        (Suppressed(t) /\ running = t) =>
            \E m \in recent_messages :
                Get(origin, m) = <<loc[t].obj.chat_id, loc[t].obj.content>>

====
